---- MODULE Spec2Model ----
(***************************************************************************)
(* Model of the Excel column concatenation service                         *)
(* (src/src/service/excel_processor.py, src/src/utils/result.py).          *)
(*                                                                         *)
(* Python values are modelled as tagged records: a str is                  *)
(* [tag |-> "Text", s |-> <<characters>>], an int is                       *)
(* [tag |-> "Number", n |-> n], and None / NaN is [tag |-> "Null"].        *)
(* A str is the sequence of its characters, so that formatting, joining    *)
(* and the substring test are computed, not assumed.                       *)
(* Python lists are sequences; Python index k is TLA+ index k + 1.         *)
(* An Optional[T] field is a sequence of length 0 (None) or 1 (a value).   *)
(***************************************************************************)
EXTENDS Integers, Sequences, FiniteSets, TLC

VARIABLES entry, file, data, column_names, pc, load_result, result, calls,
          rerun_result

vars == <<entry, file, data, column_names, pc, load_result, result, calls,
          rerun_result>>

(***************************************************************************)
(* Bounds of the explored inputs.                                          *)
(***************************************************************************)
MaxHdr == 2
MaxRows == 2
MaxReq == 2
MaxRowLen == MaxHdr + 1

(***************************************************************************)
(* Values.                                                                 *)
(***************************************************************************)
Text(s) == [tag |-> "Text", s |-> s]
Number(n) == [tag |-> "Number", n |-> n]
Null == [tag |-> "Null"]

\* Sequences over S of length lo..hi.
SeqsOf(S, lo, hi) == UNION {[1..n -> S] : n \in lo..hi}

\* The string literals of the code.
MsgNoData == <<"N","o"," ","d","a","t","a"," ","t","o"," ","p","r","o","c","e","s","s">>
MsgEmpty == <<"E","x","c","e","l"," ","f","i","l","e"," ","c","o","n","t","a","i","n","s"," ","n","o"," ","d","a","t","a">>
MsgRow == <<"R","o","w"," ","h","a","s"," ","i","n","c","o","n","s","i","s","t","e","n","t"," ","n","u","m","b","e","r"," ","o","f"," ","c","o","l","u","m","n","s">>
MsgNull == <<"R","o","w"," ","c","o","n","t","a","i","n","s"," ","n","u","l","l"," ","v","a","l","u","e","s"," ","i","n"," ","c","o","l","u","m","n","s"," ","t","o"," ","c","o","n","c","a","t","e","n","a","t","e">>
FileNotFoundPrefix == <<"F","i","l","e"," ","n","o","t"," ","f","o","u","n","d",":"," ">>
LoadErrorPrefix == <<"E","r","r","o","r"," ","l","o","a","d","i","n","g"," ","E","x","c","e","l"," ","f","i","l","e",":"," ">>
ColumnPrefix == <<"C","o","l","u","m","n"," ","'">>
ColumnSuffix == <<"'"," ","n","o","t"," ","f","o","u","n","d"," ","i","n"," ","t","h","e"," ","d","a","t","a">>
Concatenated == <<"C","o","n","c","a","t","e","n","a","t","e","d">>
delimiter == <<" ">>

(***************************************************************************)
(* Result (src/src/utils/result.py).                                       *)
(***************************************************************************)
Result(success, d, error) == [success |-> success, data |-> d, error |-> error]
ResultOk(d) == Result(TRUE, <<d>>, <<>>)
ResultFail(error) == Result(FALSE, <<>>, <<error>>)
is_success(r) == r.success

(***************************************************************************)
(* str(value): the decimal digits of an int, a str unchanged.              *)
(***************************************************************************)
DigitChar(d) == <<"0","1","2","3","4","5","6","7","8","9">>[d + 1]

RECURSIVE Digits(_)
Digits(n) == IF n < 10 THEN <<DigitChar(n)>>
             ELSE Digits(n \div 10) \o <<DigitChar(n % 10)>>

str(v) == IF v.tag = "Text" THEN v.s
          ELSE IF v.tag = "Number"
               THEN (IF v.n < 0 THEN <<"-">> \o Digits(0 - v.n) ELSE Digits(v.n))
               ELSE <<"N","o","n","e">>

\* delimiter.join(strings)
RECURSIVE join(_, _)
join(sep, strs) == IF Len(strs) = 0 THEN <<>>
                   ELSE IF Len(strs) = 1 THEN strs[1]
                   ELSE strs[1] \o sep \o join(sep, Tail(strs))

\* value is None or pd.isna(value)
isna(v) == v.tag = "Null"

\* column in headers
In(column, headers) == \E i \in 1..Len(headers) : headers[i] = column

\* headers.index(column): the first position holding column (1-based here).
index(headers, column) ==
    CHOOSE i \in 1..Len(headers) :
        /\ headers[i] = column
        /\ \A j \in 1..(i - 1) : headers[j] # column

\* Variant of without: the enumerate position is compared one off, so the
\* neighbour of each selected position is dropped instead.
RECURSIVE without_shifted(_, _, _)
without_shifted(row, column_indices, i) ==
    IF i > Len(row) THEN <<>>
    ELSE (IF \E k \in 1..Len(column_indices) : column_indices[k] + 1 = i
          THEN <<>> ELSE <<row[i]>>)
         \o without_shifted(row, column_indices, i + 1)

\* [val for i, val in enumerate(row) if i not in column_indices]
RECURSIVE without(_, _, _)
without(row, column_indices, i) ==
    IF i > Len(row) THEN <<>>
    ELSE (IF \E k \in 1..Len(column_indices) : column_indices[k] = i
          THEN <<>> ELSE <<row[i]>>) \o without(row, column_indices, i + 1)

(***************************************************************************)
(* ExcelProcessor.__concatenate_columns                                    *)
(***************************************************************************)
\* f"Column '{column}' not found in the data"
ColumnNotFound(column) == ColumnPrefix \o str(column) \o ColumnSuffix

\* Variant of first_missing: the loop has no break, so the last missing
\* column is the one reported.
RECURSIVE first_missing_last(_, _, _)
first_missing_last(headers, names, k) ==
    IF k > Len(names) THEN 0
    ELSE LET later == first_missing_last(headers, names, k + 1) IN
         IF later # 0 THEN later
         ELSE IF ~In(names[k], headers) THEN k
         ELSE 0

\* The validation loop: the position in column_names of the first column
\* that is not in headers, 0 when the loop ends without a break.
RECURSIVE first_missing(_, _, _)
first_missing(headers, names, k) ==
    IF k > Len(names) THEN 0
    ELSE IF ~In(names[k], headers) THEN k
    ELSE first_missing(headers, names, k + 1)

\* Variant of indices_of: the indices are taken in reverse request order.
indices_of_reversed(headers, names) ==
    [k \in 1..Len(names) |-> index(headers, names[Len(names) + 1 - k])]

\* [headers.index(column) for column in column_names]
indices_of(headers, names) ==
    [k \in 1..Len(names) |-> index(headers, names[k])]

\* any(idx >= len(row) for idx in column_indices), with 1-based positions
row_too_short(row, column_indices) ==
    \E k \in 1..Len(column_indices) : column_indices[k] > Len(row)

\* [row[idx] for idx in column_indices]
values_of(row, column_indices) ==
    [k \in 1..Len(column_indices) |-> row[column_indices[k]]]

\* any(value is None or pd.isna(value) for value in values_to_concatenate)
any_null(values_to_concatenate) ==
    \E k \in 1..Len(values_to_concatenate) : isna(values_to_concatenate[k])

\* delimiter.join(map(str, values_to_concatenate))
concatenated_value_of(values_to_concatenate) ==
    join(delimiter, [k \in 1..Len(values_to_concatenate) |->
                        str(values_to_concatenate[k])])

\* new_row: the cells outside column_indices, then the concatenated value
new_row_of(row, column_indices) ==
    Append(without(row, column_indices, 1),
           Text(concatenated_value_of(values_of(row, column_indices))))

\* Variant of process_rows: the width of every remaining row is checked
\* before any null check.
RECURSIVE process_rows_widths_first(_, _, _, _)
process_rows_widths_first(d, column_indices, i, new_data) ==
    IF i > Len(d) THEN ResultOk(new_data)
    ELSE IF \E r \in i..Len(d) : row_too_short(d[r], column_indices)
         THEN ResultFail(MsgRow)
    ELSE IF any_null(values_of(d[i], column_indices))
         THEN ResultFail(MsgNull)
    ELSE process_rows_widths_first(d, column_indices, i + 1,
             Append(new_data, new_row_of(d[i], column_indices)))

\* Variant of process_rows: a failure carries the rows built so far.
RECURSIVE process_rows_partial(_, _, _, _)
process_rows_partial(d, column_indices, i, new_data) ==
    IF i > Len(d) THEN ResultOk(new_data)
    ELSE IF row_too_short(d[i], column_indices)
         THEN Result(FALSE, <<new_data>>, <<MsgRow>>)
    ELSE IF any_null(values_of(d[i], column_indices))
         THEN Result(FALSE, <<new_data>>, <<MsgNull>>)
    ELSE process_rows_partial(d, column_indices, i + 1,
             Append(new_data, new_row_of(d[i], column_indices)))

\* Variant of process_rows: each new row is inserted right after the
\* header, so the output rows come out in reverse order.
RECURSIVE process_rows_newest_first(_, _, _, _)
process_rows_newest_first(d, column_indices, i, new_data) ==
    IF i > Len(d) THEN ResultOk(new_data)
    ELSE IF row_too_short(d[i], column_indices) THEN ResultFail(MsgRow)
    ELSE IF any_null(values_of(d[i], column_indices))
         THEN ResultFail(MsgNull)
    ELSE process_rows_newest_first(d, column_indices, i + 1,
             <<Head(new_data), new_row_of(d[i], column_indices)>>
                 \o Tail(new_data))

\* The loop over data[1:], from row i on, with new_data built so far.
RECURSIVE process_rows(_, _, _, _)
process_rows(d, column_indices, i, new_data) ==
    IF i > Len(d) THEN ResultOk(new_data)
    ELSE LET row == d[i] IN
         IF row_too_short(row, column_indices) THEN ResultFail(MsgRow)
         ELSE LET values_to_concatenate == values_of(row, column_indices) IN
              IF any_null(values_to_concatenate) THEN ResultFail(MsgNull)
              ELSE process_rows(d, column_indices, i + 1,
                                Append(new_data,
                                       new_row_of(row, column_indices)))

\* Variant of new_headers_of: the source columns are kept (append mode).
new_headers_of_append(headers, column_indices) ==
    Append(headers, Text(Concatenated))

\* Variant of new_headers_of: headers are dropped by name, not by index.
new_headers_of_by_name(headers, column_indices) ==
    Append(SelectSeq(headers,
                     LAMBDA h : \A k \in 1..Len(column_indices) :
                                    headers[column_indices[k]] # h),
           Text(Concatenated))

\* new_headers: the headers outside column_indices, then "Concatenated"
new_headers_of(headers, column_indices) ==
    Append(without(headers, column_indices, 1), Text(Concatenated))

concatenate_columns(d, names) ==
    IF Len(d) < 2 THEN ResultFail(MsgNoData)
    ELSE LET headers == d[1]
             missing == first_missing(headers, names, 1)
         IN
         IF missing # 0 THEN ResultFail(ColumnNotFound(names[missing]))
         ELSE LET column_indices == indices_of(headers, names)
                  new_headers == new_headers_of(headers, column_indices)
              IN process_rows(d, column_indices, 2, <<new_headers>>)

(***************************************************************************)
(* ExcelProcessor.__load_excel_file and ExcelProcessor.process_file        *)
(* A file is what the file system and the parser hold for a path: whether  *)
(* the path exists, whether pd.read_excel raises (and with what message),  *)
(* and the DataFrame it returns otherwise.                                 *)
(***************************************************************************)
\* Variant of df_empty: only the columns are looked at.
df_empty_columns_only(df) == Len(df.columns) = 0

\* df.empty: some axis of the frame has length 0
df_empty(df) == Len(df.columns) = 0 \/ Len(df.values) = 0

load_excel_file(f) ==
    IF ~f.exists THEN ResultFail(FileNotFoundPrefix \o f.path)
    ELSE IF f.raises THEN ResultFail(LoadErrorPrefix \o f.exc)
    ELSE IF df_empty(f.df) THEN ResultFail(MsgEmpty)
    ELSE ResultOk(<<f.df.columns>> \o f.df.values)

process_file(f, names) ==
    LET loaded == load_excel_file(f) IN
    IF is_success(loaded)
    THEN concatenate_columns(loaded.data[1], names)
    ELSE loaded

(***************************************************************************)
(* Inputs.                                                                 *)
(***************************************************************************)
HeaderNames == {Text(<<"A">>), Text(<<"B">>), Text(Concatenated)}
Cells == {Text(<<"x">>), Number(30), Null}
Requests == SeqsOf(HeaderNames, 0, MaxReq)
Headers == SeqsOf(HeaderNames, 0, MaxHdr)
Rows == SeqsOf(Cells, 0, MaxRowLen)

\* Tables a caller can hand to __concatenate_columns: the empty list, or a
\* header row followed by data rows of any width.
Tables == {<<>>} \cup
          {<<h>> \o rs : h \in Headers, rs \in SeqsOf(Rows, 0, MaxRows)}

\* Frames the parser returns: column names are distinct, every row is as
\* wide as the header, and a frame without columns has no rows.
Frames == UNION {
            {[columns |-> h, values |-> rs] :
                rs \in SeqsOf([1..Len(h) -> Cells], 0,
                              IF Len(h) = 0 THEN 0 ELSE MaxRows)} :
            h \in {hh \in Headers :
                      \A i, j \in 1..Len(hh) : hh[i] = hh[j] => i = j}}

Path == <<"f",".","x","l","s","x">>
ExcMsg == <<"b","a","d">>
NoFrame == [columns |-> <<>>, values |-> <<>>]

Files == {[path |-> Path, exists |-> FALSE, raises |-> FALSE,
           exc |-> <<>>, df |-> NoFrame],
          [path |-> Path, exists |-> TRUE, raises |-> TRUE,
           exc |-> ExcMsg, df |-> NoFrame]}
         \cup {[path |-> Path, exists |-> TRUE, raises |-> FALSE,
                exc |-> <<>>, df |-> df] : df \in Frames}

NoFile == [path |-> <<>>, exists |-> FALSE, raises |-> FALSE,
           exc |-> <<>>, df |-> NoFrame]

(***************************************************************************)
(* The state machine: a caller enters through process_file with a file, or *)
(* calls __concatenate_columns directly with a table; a successful result  *)
(* may be fed back to __concatenate_columns with the same column names.    *)
(***************************************************************************)
Init ==
    /\ entry \in {"process_file", "concatenate_columns"}
    /\ column_names \in Requests
    /\ IF entry = "process_file"
       THEN file \in Files /\ data = <<>>
       ELSE file = NoFile /\ data \in Tables
    /\ pc = "call"
    /\ load_result = <<>>
    /\ result = <<>>
    /\ calls = <<>>
    /\ rerun_result = <<>>

CallProcessFile ==
    /\ pc = "call"
    /\ entry = "process_file"
    /\ LET loaded == load_excel_file(file) IN
       /\ load_result' = <<loaded>>
       /\ calls' = IF is_success(loaded)
                   THEN <<"load_excel_file", "concatenate_columns">>
                   ELSE <<"load_excel_file">>
       /\ data' = IF is_success(loaded) THEN loaded.data[1] ELSE data
    /\ result' = <<process_file(file, column_names)>>
    /\ pc' = "returned"
    /\ UNCHANGED <<entry, file, column_names, rerun_result>>

CallConcatenateColumns ==
    /\ pc = "call"
    /\ entry = "concatenate_columns"
    /\ result' = <<concatenate_columns(data, column_names)>>
    /\ calls' = <<"concatenate_columns">>
    /\ pc' = "returned"
    /\ UNCHANGED <<entry, file, data, column_names, load_result, rerun_result>>

Rerun ==
    /\ pc = "returned"
    /\ is_success(result[1])
    /\ rerun_result' = <<concatenate_columns(result[1].data[1], column_names)>>
    /\ calls' = Append(calls, "concatenate_columns")
    /\ pc' = "rerun"
    /\ UNCHANGED <<entry, file, data, column_names, load_result, result>>

Next == CallProcessFile \/ CallConcatenateColumns \/ Rerun

Spec == Init /\ [][Next]_vars

(***************************************************************************)
(* Vocabulary of the properties, stated over the inputs and the returned   *)
(* results without reference to the operators above.                       *)
(***************************************************************************)
Returned == pc # "call"
Res == result[1]
ConcatInvoked == \E i \in 1..Len(calls) : calls[i] = "concatenate_columns"
\* __concatenate_columns was called on data and column_names and returned Res
ConcatReturned == Returned /\ ConcatInvoked
ConcatOk == ConcatReturned /\ Res.success

IsFail(r, msg) == ~r.success /\ r.error = <<msg>>

Least(S) == CHOOSE m \in S : \A x \in S : m <= x
Occurrences(h, name) == {i \in 1..Len(h) : h[i] = name}
RequestedNames == {column_names[k] : k \in 1..Len(column_names)}
Exists(name) == Occurrences(data[1], name) # {}
AllExist == \A name \in RequestedNames : Exists(name)
\* the position selected for a requested name: its first occurrence
PositionOf(name) == Least(Occurrences(data[1], name))
RequestedPositions == {PositionOf(name) : name \in RequestedNames}

\* the cells of row outside the positions P, in their original order
Kept(row, P) ==
    LET keep == {i \in 1..Len(row) : i \notin P}
        nth(j) == CHOOSE i \in keep : Cardinality({m \in keep : m < i}) = j - 1
    IN [j \in 1..Cardinality(keep) |-> row[nth(j)]]

WidthFails(r) == \E p \in RequestedPositions : p > Len(data[r])
NullFails(r) == \E p \in RequestedPositions :
                    p <= Len(data[r]) /\ data[r][p] = Null
DataRows == 2..Len(data)
CellsFine == \A r \in DataRows : ~WidthFails(r) /\ ~NullFails(r)

\* the string form of a cell: text as it is, the number 30 as "30"
StringForm(v) == IF v = Number(30) THEN <<"3", "0">> ELSE v.s

\* the string forms of the first k requested cells of a row, in request
\* order, with one space between neighbours
RECURSIVE Spaced(_, _)
Spaced(row, k) ==
    IF k = 0 THEN <<>>
    ELSE LET cell == StringForm(row[PositionOf(column_names[k])]) IN
         IF k = 1 THEN cell ELSE Spaced(row, k - 1) \o <<" ">> \o cell
ExpectedValue(row) == Text(Spaced(row, Len(column_names)))

ColumnNotFoundMessage(name) ==
    <<"C","o","l","u","m","n"," ","'">> \o name.s \o
    <<"'"," ","n","o","t"," ","f","o","u","n","d"," ","i","n"," ","t","h","e"," ","d","a","t","a">>

\* sub occurs in s as a contiguous run (Python: sub in s)
Contains(s, sub) ==
    \E i \in 0..(Len(s) - Len(sub)) : SubSeq(s, i + 1, i + Len(sub)) = sub

(***************************************************************************)
(* C1: Replace-mode output. When the table has at least one data row, all  *)
(* requested columns exist and every selected cell is in bounds and        *)
(* non-null, __concatenate_columns returns Ok; the output header is the    *)
(* input header without the requested positions followed by                *)
(* "Concatenated", and each output data row is the input row without       *)
(* those positions followed by the concatenated value.                     *)
(***************************************************************************)
C1_ReplaceMode ==
    (ConcatReturned /\ Len(data) >= 2 /\ AllExist /\ CellsFine) =>
        /\ Res.success
        /\ Len(Res.data) = 1
        /\ LET out == Res.data[1] IN
           /\ Len(out) = Len(data)
           /\ out[1] = Append(Kept(data[1], RequestedPositions),
                              Text(Concatenated))
           /\ \A r \in DataRows :
                  out[r] = Append(Kept(data[r], RequestedPositions),
                                  ExpectedValue(data[r]))

\* a table read from a file, two data rows, a requested column removed and
\* another column kept
C1_Witness ==
    /\ ConcatOk
    /\ entry = "process_file"
    /\ Len(data) = 3
    /\ column_names = <<Text(<<"A">>)>>
    /\ data[1] = <<Text(<<"A">>), Text(<<"B">>)>>
    /\ Res.data[1][1] = <<Text(<<"B">>), Text(Concatenated)>>
    /\ Res.data[1][2] = <<Number(30), Text(<<"x">>)>>

(***************************************************************************)
(* C2: Column existence check. When the table has at least 2 rows and some *)
(* requested name matches no header entry, __concatenate_columns fails     *)
(* with "Column '{name}' not found in the data" for the first missing name *)
(* in request order, whatever the other names and the data rows are.       *)
(***************************************************************************)
MissingAt(k) == ~Exists(column_names[k])
C2_FirstMissingColumn ==
    (ConcatReturned /\ Len(data) >= 2 /\ ~AllExist) =>
        LET k == Least({j \in 1..Len(column_names) : MissingAt(j)})
        IN IsFail(Res, ColumnNotFoundMessage(column_names[k]))

\* two requested names are missing, the first of them is the one reported;
\* a data row also holds a null
C2_Witness ==
    /\ ConcatReturned
    /\ Len(data) = 3
    /\ data[1] = <<Text(<<"A">>)>>
    /\ column_names = <<Text(<<"B">>), Text(Concatenated)>>
    /\ data[2] = <<Null>>
    /\ IsFail(Res, ColumnNotFoundMessage(Text(<<"B">>)))

(***************************************************************************)
(* C3: Check ordering. The reported outcome is the failure of the first    *)
(* stage that fails, in the order NotFound, LoadError, EmptyData,          *)
(* InsufficientData, ColumnNotFound, then the data rows in their order     *)
(* with InconsistentRow before NullValue within a row; later stages and    *)
(* later rows never change it.                                             *)
(***************************************************************************)
HasPrefix(s, pre) == Len(s) >= Len(pre) /\ SubSeq(s, 1, Len(pre)) = pre

KindOf(r) ==
    IF r.success THEN "Ok"
    ELSE LET m == r.error[1] IN
         CASE HasPrefix(m, FileNotFoundPrefix) -> "NotFound"
           [] HasPrefix(m, LoadErrorPrefix) -> "LoadError"
           [] m = MsgEmpty -> "EmptyData"
           [] m = MsgNoData -> "InsufficientData"
           [] HasPrefix(m, ColumnPrefix) -> "ColumnNotFound"
           [] m = MsgRow -> "InconsistentRow"
           [] m = MsgNull -> "NullValue"
           [] OTHER -> "Unknown"

FailingRows == {r \in DataRows : WidthFails(r) \/ NullFails(r)}

\* the stages from the sufficiency check on, over the table in data
ExpectedConcatKind ==
    IF Len(data) < 2 THEN "InsufficientData"
    ELSE IF ~AllExist THEN "ColumnNotFound"
    ELSE IF FailingRows # {}
         THEN (IF WidthFails(Least(FailingRows)) THEN "InconsistentRow"
               ELSE "NullValue")
    ELSE "Ok"

ExpectedKind ==
    IF entry = "process_file"
    THEN (IF ~file.exists THEN "NotFound"
          ELSE IF file.raises THEN "LoadError"
          ELSE IF Len(file.df.values) = 0 THEN "EmptyData"
          ELSE ExpectedConcatKind)
    ELSE ExpectedConcatKind

C3_CheckOrdering == Returned => KindOf(Res) = ExpectedKind

\* through process_file: a requested column is missing and a cell of a
\* requested column that exists is null; ColumnNotFound is reported
C3_Witness ==
    /\ Returned
    /\ entry = "process_file"
    /\ data = <<<<Text(<<"A">>)>>, <<Null>>>>
    /\ column_names = <<Text(<<"A">>), Text(<<"B">>)>>
    /\ KindOf(Res) = "ColumnNotFound"

(***************************************************************************)
(* C4: Concatenated value. In every Ok result of __concatenate_columns the *)
(* last cell of each output data row is the string forms of that row's     *)
(* selected cells, in the order the columns were requested, joined by one  *)
(* space; a name requested k times contributes its value k times.  (The    *)
(* selected cells of an Ok result exist and are not null.)                 *)
(***************************************************************************)
C4_ConcatenatedValue ==
    ConcatOk =>
        LET out == Res.data[1] IN
        /\ Len(out) = Len(data)
        /\ AllExist
        /\ \A r \in DataRows :
               /\ ~WidthFails(r) /\ ~NullFails(r)
               /\ out[r][Len(out[r])] = ExpectedValue(data[r])

\* the columns are requested against header order, and one of them holds a
\* number
C4_Witness ==
    /\ ConcatOk
    /\ data[1] = <<Text(<<"A">>), Text(<<"B">>)>>
    /\ column_names = <<Text(<<"B">>), Text(<<"A">>)>>
    /\ Len(data) = 2
    /\ data[2] = <<Text(<<"x">>), Number(30)>>
    /\ Res.data[1][2] = <<Text(<<"3", "0", " ", "x">>)>>

(***************************************************************************)
(* C5: Idempotence, as claimed: whenever __concatenate_columns returned    *)
(* Ok, running it again on its output with the same column names fails     *)
(* with "Column '{name}' not found in the data".                           *)
(***************************************************************************)
Rerun_ == rerun_result[1]
RerunColumnNotFound ==
    \E name \in RequestedNames : IsFail(Rerun_, ColumnNotFoundMessage(name))

C5_Original == pc = "rerun" => RerunColumnNotFound

(***************************************************************************)
(* C5, amended: whenever __concatenate_columns returned Ok and some        *)
(* requested name occurs exactly once in the input header and is not       *)
(* "Concatenated", running it again on its output with the same column     *)
(* names fails with "Column '{name}' not found in the data", for the first *)
(* such name in request order.                                             *)
(***************************************************************************)
RemovedAt(k) ==
    /\ Cardinality(Occurrences(data[1], column_names[k])) = 1
    /\ column_names[k] # Text(Concatenated)

C5_RerunColumnNotFound ==
    (pc = "rerun" /\ \E k \in 1..Len(column_names) : RemovedAt(k)) =>
        LET k == Least({j \in 1..Len(column_names) : RemovedAt(j)})
        IN IsFail(Rerun_, ColumnNotFoundMessage(column_names[k]))

C5_Witness ==
    /\ pc = "rerun"
    /\ data[1] = <<Text(<<"A">>), Text(<<"B">>)>>
    /\ column_names = <<Text(<<"B">>), Text(<<"A">>)>>
    /\ Len(data) = 3
    /\ IsFail(Rerun_, ColumnNotFoundMessage(Text(<<"B">>)))

(***************************************************************************)
(* C6: Rectangular output. Whenever __concatenate_columns returns Ok,      *)
(* every data row of the output is as long as the output header, also for  *)
(* input tables whose data rows are shorter or longer than the header.     *)
(***************************************************************************)
C6_Rectangular ==
    ConcatOk =>
        LET out == Res.data[1] IN
        \A r \in 2..Len(out) : Len(out[r]) = Len(out[1])

(***************************************************************************)
(* C7: Direct sufficiency check. __concatenate_columns called directly on  *)
(* a table with fewer than 2 rows returns a Fail whose message contains    *)
(* "Insufficient data for concatenation".                                  *)
(***************************************************************************)
C7_InsufficientMessage ==
    (Returned /\ entry = "concatenate_columns" /\ Len(data) < 2) =>
        /\ ~Res.success
        /\ Len(Res.error) = 1
        /\ Contains(Res.error[1],
                    <<"I","n","s","u","f","f","i","c","i","e","n","t"," ",
                      "d","a","t","a"," ","f","o","r"," ",
                      "c","o","n","c","a","t","e","n","a","t","i","o","n">>)

(***************************************************************************)
(* C8: Empty data stops at load. Through process_file, a file whose parsed *)
(* table has zero data rows yields Fail("Excel file contains no data") and *)
(* __concatenate_columns is not invoked; process_file never returns        *)
(* "No data to process"; and a failed load is returned unchanged.          *)
(***************************************************************************)
C8_EmptyStopsAtLoad ==
    (Returned /\ entry = "process_file") =>
        /\ (file.exists /\ ~file.raises /\ Len(file.df.values) = 0) =>
               /\ IsFail(Res, <<"E","x","c","e","l"," ","f","i","l","e"," ",
                                "c","o","n","t","a","i","n","s"," ",
                                "n","o"," ","d","a","t","a">>)
               /\ ~ConcatInvoked
        /\ ~IsFail(Res, <<"N","o"," ","d","a","t","a"," ","t","o"," ",
                          "p","r","o","c","e","s","s">>)
        /\ ~load_result[1].success =>
               (Res = load_result[1] /\ ~ConcatInvoked)

\* a file with a header and no data rows
C8_Witness ==
    /\ Returned
    /\ entry = "process_file"
    /\ file.exists /\ ~file.raises
    /\ file.df.columns = <<Text(<<"A">>), Text(<<"B">>)>>
    /\ file.df.values = <<>>
    /\ column_names = <<Text(<<"A">>), Text(<<"B">>)>>
    /\ IsFail(Res, MsgEmpty)
    /\ calls = <<"load_excel_file">>

(***************************************************************************)
(* C9: No partial output. Every Result returned by process_file,           *)
(* __load_excel_file or __concatenate_columns is either a success with a   *)
(* table and no error, or a failure with an error message and no table;    *)
(* a width or null failure at a later data row returns none of the rows    *)
(* already transformed.                                                    *)
(***************************************************************************)
OneVariant(r) ==
    \/ r.success /\ Len(r.data) = 1 /\ Len(r.error) = 0
    \/ ~r.success /\ Len(r.data) = 0 /\ Len(r.error) = 1

C9_OneVariant ==
    /\ \A i \in 1..Len(load_result) : OneVariant(load_result[i])
    /\ \A i \in 1..Len(result) : OneVariant(result[i])
    /\ \A i \in 1..Len(rerun_result) : OneVariant(rerun_result[i])

\* the first data row is transformed, the second one holds a null
C9_Witness ==
    /\ ConcatReturned
    /\ Len(data) = 3
    /\ AllExist
    /\ column_names # <<>>
    /\ ~WidthFails(2) /\ ~NullFails(2)
    /\ ~WidthFails(3) /\ NullFails(3)
    /\ IsFail(Res, MsgNull)
    /\ Res.data = <<>>

(***************************************************************************)
(* C10: Header-length relation. Whenever __concatenate_columns returns Ok, *)
(* the output header has the input header's length minus the number of     *)
(* distinct requested names plus one, also when the header or the column   *)
(* list repeats a name.                                                    *)
(***************************************************************************)
C10_HeaderLength ==
    ConcatOk =>
        Len(Res.data[1][1]) =
            Len(data[1]) - Cardinality(RequestedNames) + 1

\* the header and the column list both repeat the name
C10_Witness ==
    /\ ConcatOk
    /\ data[1] = <<Text(<<"A">>), Text(<<"A">>)>>
    /\ column_names = <<Text(<<"A">>), Text(<<"A">>)>>
    /\ Len(Res.data[1][1]) = 2

(***************************************************************************)
(* C11: Row count and order. Whenever every requested column exists and no *)
(* selected cell is null or out of bounds, the output of                   *)
(* __concatenate_columns has as many data rows as the input, and the i-th  *)
(* output data row is derived from the i-th input data row: its cells are  *)
(* that row's cells outside the requested positions, then that row's       *)
(* concatenated value.  (A table without data rows has no output: the call *)
(* fails at the sufficiency check.)                                        *)
(***************************************************************************)
DerivedFrom(outrow, row) ==
    /\ Len(outrow) = Len(row) - Cardinality(RequestedPositions) + 1
    /\ SubSeq(outrow, 1, Len(outrow) - 1) = Kept(row, RequestedPositions)
    /\ outrow[Len(outrow)] = ExpectedValue(row)

====
